---- MODULE Spec2Model ----
(***************************************************************************)
(* A model of PyFVCOM/preproc.py: the SST assimilation driver              *)
(* (interp_sst_assimilation), its per-file worker (_inter_sst_worker), the *)
(* forcing file writer (WriteForcing) and the SST output assembler         *)
(* (write_sstgrd).                                                         *)
(*                                                                         *)
(* Conventions of the model                                                *)
(*  - a datetime is a number of hours since 2000-01-01 00:00;              *)
(*  - temperatures are hundredths of a degree (273.15 K is 27315);         *)
(*  - a file of {sst_dir}/{y} is the record [y, d]: d is its name, which   *)
(*    sorts as the day of the year it holds;                               *)
(*  - an exception is the name of its class; "none" is no exception.       *)
(***************************************************************************)
EXTENDS Integers, Sequences, FiniteSets, TLC

VARIABLES
    year,        \* argument year of interp_sst_assimilation
    dirs,        \* the filesystem under sst_dir: year -> [exists, names]
    domain,      \* the Domain: [lon, lat], one entry per mesh node
    unreadable,  \* the input files netCDF4.Dataset cannot open
    serial,      \* argument serial
    pool_size,   \* argument pool_size (0 is None)
    pc,          \* the stage of the run
    failedIn,    \* the stage an exception left the run in ("none": no exception)
    err,         \* the exception that ended the run
    sst_files,   \* local sst_files
    results,     \* local results
    ret,         \* the returned (sst, dates)
    ncalls,      \* calls of _inter_sst_worker made so far
    computed,    \* the positions of sst_files on which a worker call has returned a
                 \* result, whatever became of the result
    pool,        \* the mp.Pool: [state, nproc, chunksize, next, running, value, exc,
                 \* overtaken]; running is the set of chunks its processes hold, exc
                 \* the first exception a chunk raised, overtaken whether a chunk
                 \* has completed before an earlier one
    nc,          \* the netCDF handle of WriteForcing.nc: "none", "open" or "closed"
    file,        \* the output netCDF file on disk
    last,        \* the last WriteForcing call and the file before it
    wIn,         \* the worker harness: arguments of one _inter_sst_worker call
    wOut         \* the worker harness: what that call returned or raised

vars == <<year, dirs, domain, unreadable, serial, pool_size, pc, failedIn, err,
          sst_files, results, ret, ncalls, computed, pool, nc, file, last, wIn, wOut>>

driverVars == <<year, dirs, domain, unreadable, serial, pool_size>>
writerVars == <<nc, file, last>>
harnessVars == <<wIn, wOut>>

----------------------------------------------------------------------------
(* Bounds *)

NPrev == 2      \* {sst_dir}/{year-1} holds up to NPrev files, of the year's last days
NCur == 3       \* {sst_dir}/{year} holds up to NCur files, of the year's first days
NNext == 2      \* {sst_dir}/{year+1} holds up to NNext files, of the year's first days
MaxCpu == 2     \* os.cpu_count() is one of 1..MaxCpu
MaxPoolSize == 2 \* pool_size is None (0) or one of 1..MaxPoolSize
MaxNodes == 2    \* the worker harness runs on meshes of 1..MaxNodes nodes

----------------------------------------------------------------------------
(* Calendar: datetime.year and relativedelta(hours=12) *)

IsLeap(y) == (y % 4 = 0 /\ y % 100 # 0) \/ y % 400 = 0

DaysInYear(y) == IF IsLeap(y) THEN 366 ELSE 365

RECURSIVE StartOfYear(_)
StartOfYear(y) == IF y <= 2000 THEN 0 ELSE StartOfYear(y - 1) + 24 * DaysInYear(y - 1)

RECURSIVE YearFrom(_, _)
YearFrom(y, h) == IF h < StartOfYear(y + 1) THEN y ELSE YearFrom(y + 1, h)

\* datetime.year
YearOf(h) == YearFrom(2000, h)

\* relativedelta(hours=12)
MiddayOffset == 12

----------------------------------------------------------------------------
(* Sequences *)

Perms(S) == {s \in [1..Cardinality(S) -> S] : \A i, j \in 1..Cardinality(S) : i # j => s[i] # s[j]}

\* sorted(names)
Sorted(S) == CHOOSE s \in Perms(S) : \A i, j \in 1..Cardinality(S) : i < j => s[i] < s[j]

----------------------------------------------------------------------------
(* _inter_sst_worker *)

\* np.nan, as a value no temperature takes
NaN == -99999

\* 273.15, in hundredths of a degree
Kelvin == 27315

\* num2date(values, units): units is "hours since <units>"
Num2Date(values, unitsEpoch) == [i \in DOMAIN values |-> unitsEpoch + values[i]]

\* RegularGridInterpolator.__call__: with bounds_error left at its default (True),
\* a point outside [axis[0], axis[-1]] in any dimension raises ValueError
OutOfBounds(axis, x) == x < axis[1] \/ x > axis[Len(axis)]

\* RegularGridInterpolator._find_indices and _evaluate_nearest, one dimension:
\* i = searchsorted(axis, x) - 1 clipped to [0, n - 2]; the nearest of i and i + 1,
\* the lower one on a tie
NearestIndex(axis, x) ==
    LET less == Cardinality({k \in 1..Len(axis) : axis[k] < x})
        i0 == less - 1
        i == IF i0 < 0 THEN 0 ELSE IF i0 > Len(axis) - 2 THEN Len(axis) - 2 ELSE i0
        lo == i + 1
    IN IF 2 * (x - axis[lo]) <= axis[lo + 1] - axis[lo] THEN lo ELSE lo + 1

\* Lines 110-111, mask != 1: mask is the netCDF4 Variable itself (line 110 reads it
\* without [:]), a class with no comparison of its own, so Python compares by
\* identity and the result is the scalar True whatever the cells of the mask hold
MaskNotOne(mask) == TRUE

\* Lines 109-111: Kelvin to Celsius, then sst_eo[mask != 1] = np.nan, which with the
\* scalar True as index assigns every cell; indexed [lat][lon]
MaskedCelsius(c) ==
    [j \in 1..Len(c.lat) |-> [i \in 1..Len(c.lon) |->
        IF MaskNotOne(c.mask) THEN NaN ELSE c.sst[j][i] - Kelvin]]

NoResult(e) == [exc |-> e, time |-> <<0>>, interp |-> <<>>]

\* _inter_sst_worker(fvcom_ll, sst_file): c is the content of sst_file
InterSstWorker(ll, c) ==
    IF ~c.readable THEN NoResult("OSError")
    ELSE LET sst_eo == MaskedCelsius(c)
             n == Len(ll.lon)
         IN IF \E k \in 1..n : OutOfBounds(c.lon, ll.lon[k]) \/ OutOfBounds(c.lat, ll.lat[k])
            THEN NoResult("ValueError")
            ELSE [exc |-> "none",
                  time |-> Num2Date(c.time, c.units),
                  interp |-> [k \in 1..n |->
                      sst_eo[NearestIndex(c.lat, ll.lat[k])][NearestIndex(c.lon, ll.lon[k])]]]

----------------------------------------------------------------------------
(* The input files of the driver *)

GridLon == <<10, 20, 30>>
GridLat == <<10, 20>>

\* What netCDF4.Dataset(sst_file) holds for file f = [y, d]
FileContent(f) ==
    [readable |-> f \notin unreadable,
     sst |-> [j \in 1..Len(GridLat) |-> [i \in 1..Len(GridLon) |->
                 28000 + 1000 * (f.y % 10) + 100 * (f.d % 10) + 10 * i + j]],
     mask |-> [j \in 1..Len(GridLat) |-> [i \in 1..Len(GridLon) |->
                 IF i = 1 /\ j = 1 /\ f.d % 2 = 0 THEN 0 ELSE 1]],
     lon |-> GridLon,
     lat |-> GridLat,
     time |-> <<24 * (f.d - 1)>>,
     units |-> StartOfYear(f.y)]

\* lonlat = np.array((domain.grid.lon, domain.grid.lat)); _inter_sst_worker(lonlat, sst_file)
WorkerOn(f) == InterSstWorker(domain, FileContent(f))

\* The directories a run is tried on: the first k of the last NPrev days of year-1,
\* the first k days of year, the last k of the first NNext days of year+1
PrevNames(y) == {(DaysInYear(y - 1) - NPrev + 1)..(DaysInYear(y - 1) - NPrev + k) : k \in 0..NPrev}
CurNames == {1..k : k \in 0..NCur}
NextNames == {(NNext - k + 1)..NNext : k \in 0..NNext}

Years == {2006}

\* A directory is missing, or holds one of the sets of names S
Dirs(S) == {[exists |-> FALSE, names |-> {}]} \cup {[exists |-> TRUE, names |-> n] : n \in S}

Domains == {[lon |-> <<12, 26>>, lat |-> <<10, 17>>],
            [lon |-> <<12, 35>>, lat |-> <<10, 17>>]}

FilesOf(ds, y) == {[y |-> yy, d |-> n] : yy \in {y}, n \in ds[y].names}

----------------------------------------------------------------------------
(* interp_sst_assimilation, lines 71-73: the file list *)

\* os.listdir(dir) and the indexing of its sorted result: the exception raised for
\* a directory that is missing (os.listdir) or empty (sorted(...)[-1], sorted(...)[0])
DirErrorAsEmpty(d) == IF ~d.exists \/ d.names = {} THEN "IndexError" ELSE "none"
DirError(d) == IF ~d.exists THEN "FileNotFoundError"
               ELSE IF d.names = {} THEN "IndexError" ELSE "none"

\* os.listdir of the target year's directory raises only when it is missing
ListError(d) == IF ~d.exists THEN "FileNotFoundError" ELSE "none"

\* The exception lines 71-73 raise, in the order the three lines run
CollectError(ds, y) ==
    IF DirError(ds[y - 1]) # "none" THEN DirError(ds[y - 1])
    ELSE IF ListError(ds[y]) # "none" THEN ListError(ds[y])
    ELSE DirError(ds[y + 1])

Path(y, name) == [y |-> y, d |-> name]

\* sst_files as lines 71-73 build it; listing is os.listdir of the target year
BuildFileListNoNext(ds, y, listing) ==
    <<Path(y - 1, Sorted(ds[y - 1].names)[Cardinality(ds[y - 1].names)])>>
    \o [i \in 1..Len(listing) |-> Path(y, listing[i])]
BuildFileList(ds, y, listing) ==
    <<Path(y - 1, Sorted(ds[y - 1].names)[Cardinality(ds[y - 1].names)])>>
    \o [i \in 1..Len(listing) |-> Path(y, listing[i])]
    \o <<Path(y + 1, Sorted(ds[y + 1].names)[1])>>

----------------------------------------------------------------------------
(* interp_sst_assimilation, lines 95-101: dates and sst from results *)

AlignResults(rs) ==
    [returned |-> TRUE,
     sst |-> [i \in 1..Len(rs) |-> rs[i].interp],
     dates |-> [i \in 1..Len(rs) |-> rs[i].time[1] + MiddayOffset]]

NotReturned == [returned |-> FALSE, sst |-> <<>>, dates |-> <<>>]

\* The serial loop of lines 82-84 followed by lines 95-101, as one function of the
\* file list: what interp_sst_assimilation(serial=True) returns, or the exception
RECURSIVE SerialLoop(_, _)
SerialLoop(files, acc) ==
    IF Len(acc) = Len(files) THEN [exc |-> "none", results |-> acc]
    ELSE LET r == WorkerOn(files[Len(acc) + 1])
         IN IF r.exc # "none" THEN [exc |-> r.exc, results |-> acc]
            ELSE SerialLoop(files, Append(acc, r))

SerialRun(files) ==
    LET l == SerialLoop(files, <<>>)
    IN IF l.exc # "none" THEN [exc |-> l.exc, ret |-> NotReturned]
       ELSE [exc |-> "none", ret |-> AlignResults(l.results)]

----------------------------------------------------------------------------
(* multiprocessing.Pool.map, line 91.  The list is cut into chunks, the chunks *)
(* are queued in order, each idle process takes the next one, and the chunks *)
(* complete in any order.  The processes are interchangeable (the worker is a *)
(* function of lonlat and the file alone), so the pool records which chunks are *)
(* held by some process, at most nproc at a time, not by which. *)

Pending == NoResult("pending")

\* Pool._map_async: chunksize, extra = divmod(len(iterable), len(pool) * 4)
ChunkSize(n, nproc) ==
    IF n % (nproc * 4) = 0 THEN n \div (nproc * 4) ELSE n \div (nproc * 4) + 1

NumChunks(n, cs) == IF n % cs = 0 THEN n \div cs ELSE n \div cs + 1

\* The input positions chunk k holds
ChunkItems(k, cs, n) == {i \in 1..n : (k - 1) * cs < i /\ i <= k * cs}

\* MapResult._set: the position in the result list of item j of chunk k
StoreIndexStride1(k, cs, j) == (k - 1) + j
StoreIndex(k, cs, j) == (k - 1) * cs + j

\* MapResult._set(k, chunk results): self._value[k*cs:(k+1)*cs] = result
MapStoreInCompletionOrder(value, k, cs, res) ==
    LET done == Cardinality({i \in 1..Len(value) : value[i].exc # "pending"})
    IN [i \in 1..Len(value) |->
           IF i > done /\ i <= done + Len(res) THEN res[i - done] ELSE value[i]]
MapStore(value, k, cs, res) ==
    [i \in 1..Len(value) |->
        IF \E j \in 1..Len(res) : StoreIndex(k, cs, j) = i
        THEN res[CHOOSE j \in 1..Len(res) : StoreIndex(k, cs, j) = i]
        ELSE value[i]]

NoPool == [state |-> "none", nproc |-> 0, chunksize |-> 0, next |-> 0,
           running |-> {}, value |-> <<>>, exc |-> "none", overtaken |-> FALSE]

\* The results a pool has stored so far
Stored(value) == {i \in 1..Len(value) : value[i].exc # "pending"}

----------------------------------------------------------------------------
(* WriteForcing *)

NoFile == [exists |-> FALSE, dims |-> {}, year |-> 0, vars |-> {}]

NoCall == [op |-> "none", dims |-> <<>>, err |-> "none", before |-> NoFile]

\* A global_attributes argument: None, or a dict whose 'year' entry is y
NoAttributes == [given |-> FALSE, year |-> 0]
Attributes(y) == [given |-> TRUE, year |-> y]

\* WriteForcing.__init__, lines 147-153: Dataset(filename, 'w') creates the file,
\* createDimension declares each dimension, setattr writes each global attribute;
\* iterating over global_attributes=None raises TypeError after the first two
WFInit(dimensions, ga) ==
    [file |-> [exists |-> TRUE, dims |-> dimensions,
               year |-> IF ga.given THEN ga.year ELSE 0, vars |-> {}],
     nc |-> "open",
     err |-> IF ga.given THEN "none" ELSE "TypeError"]

Range(s) == {s[i] : i \in DOMAIN s}

\* Dataset.createVariable(name, format, dimensions), line 176: the exception it
\* raises and leaves the file untouched with, "none" when it creates the variable.
\* createVariable first turns each dimension name into its Dimension by looking it
\* up in the dimensions dict of the Dataset object (netCDF4's _find_dim, which
\* raises ValueError "cannot find dimension ... in this group or parent groups");
\* the dict outlives close(), so the lookup runs the same on a closed handle.
\* Only then does it call the netCDF library, which refuses a closed handle and a
\* variable name already in use, each with RuntimeError.
CreateVariableUnchecked(f, handle, name, dimensions) ==
    IF handle # "open" THEN "RuntimeError"
    ELSE IF \E v \in f.vars : v.name = name THEN "RuntimeError"
    ELSE "none"
CreateVariableError(f, handle, name, dimensions) ==
    IF \E d \in Range(dimensions) : d \notin f.dims THEN "ValueError"
    ELSE IF handle # "open" THEN "RuntimeError"
    ELSE IF \E v \in f.vars : v.name = name THEN "RuntimeError"
    ELSE "none"

NewVar(name, dimensions, atts) ==
    [name |-> name, dims |-> dimensions, atts |-> atts, data |-> FALSE]

\* WriteForcing.add_variable, lines 176-180.  createVariable runs first, as an
\* argument of setattr; setattr then refuses keyword arguments (a non-empty
\* ncopts); the loop over attributes=None raises TypeError; line 180 calls setattr
\* with two arguments, which raises TypeError before any data is written.
AddVariable(f, handle, name, dimensions, attsGiven, ncoptsEmpty) ==
    LET e == CreateVariableError(f, handle, name, dimensions)
    IN IF e # "none" THEN [file |-> f, err |-> e]
       ELSE IF ~ncoptsEmpty \/ ~attsGiven
            THEN [file |-> [f EXCEPT !.vars = @ \cup {NewVar(name, dimensions, FALSE)}],
                  err |-> "TypeError"]
            ELSE [file |-> [f EXCEPT !.vars = @ \cup {NewVar(name, dimensions, TRUE)}],
                  err |-> "TypeError"]

\* WriteForcing.close, line 184
Close(handle) == IF handle = "open" THEN [nc |-> "closed", err |-> "none"]
                 ELSE [nc |-> handle, err |-> "RuntimeError"]

\* write_sstgrd, line 215: the names of dims
SstgrdDims == {"nele", "node", "time", "DateStrLen", "three"}

\* write_sstgrd, line 207: globals['year']
SstgrdYear(time) == YearOf(time[1])

\* The with statement of line 217 on an object whose class defines neither
\* __enter__ nor __exit__: AttributeError up to Python 3.10, TypeError from 3.11
WithErrors == {"AttributeError", "TypeError"}

\* The handle of a Dataset whose WriteForcing was never bound to a name, once the
\* exception has left the call: no code closes it; an interpreter that counts
\* references finalizes the Dataset while unwinding, which closes the file, another
\* leaves it open until a later collection
Unreferenced(handle) == IF handle = "open" THEN {"open", "closed"} ELSE {handle}

----------------------------------------------------------------------------
(* The run: interp_sst_assimilation, then write_sstgrd on what it returned      *)
(* (the docstring example, lines 60-62)                                         *)

\* The files a run may find unreadable: the one named 1 of year or of year+1
Unreadables(ds, y) ==
    {{}} \cup {{f} : f \in {g \in FilesOf(ds, y) \cup FilesOf(ds, y + 1) : g.d = 1}}

Init ==
    /\ year \in Years
    /\ \E p \in Dirs(PrevNames(year)), c \in Dirs(CurNames), n \in Dirs(NextNames) :
          dirs = [y \in {year - 1, year, year + 1} |->
                     IF y = year - 1 THEN p ELSE IF y = year THEN c ELSE n]
    /\ domain \in Domains
    /\ unreadable \in Unreadables(dirs, year)
    /\ serial \in BOOLEAN
    /\ pool_size \in (IF serial THEN {0} ELSE 0..MaxPoolSize)
    /\ pc = "CollectingFiles"
    /\ failedIn = "none"
    /\ err = "none"
    /\ sst_files = <<>>
    /\ results = <<>>
    /\ ret = NotReturned
    /\ ncalls = 0
    /\ computed = {}
    /\ pool = NoPool
    /\ nc = "none"
    /\ file = NoFile
    /\ last = NoCall
    /\ wIn = <<>>
    /\ wOut = <<>>

\* An exception leaves interp_sst_assimilation: its locals go with its frame
Raise(stage, e, done) ==
    /\ pc' = "Failed"
    /\ failedIn' = stage
    /\ err' = e
    /\ results' = <<>>
    /\ computed' = done

\* Lines 71-73
CollectFiles ==
    /\ pc = "CollectingFiles"
    /\ IF CollectError(dirs, year) # "none"
       THEN /\ Raise("CollectingFiles", CollectError(dirs, year), {})
            /\ UNCHANGED sst_files
       ELSE /\ \E listing \in Perms(dirs[year].names) :
                  sst_files' = BuildFileList(dirs, year, listing)
            /\ pc' = "Interpolating"
            /\ UNCHANGED <<failedIn, err, results, computed>>
    /\ UNCHANGED <<driverVars, ret, ncalls, pool, writerVars, harnessVars>>

\* Whether a worker result ends the batch
SkipsFailure(r) == FALSE
Fails(r) == r.exc # "none"

\* Lines 83-84: one iteration of the serial loop
SerialStep ==
    /\ pc = "Interpolating"
    /\ serial
    /\ Len(results) < Len(sst_files)
    /\ LET r == WorkerOn(sst_files[Len(results) + 1])
       IN /\ ncalls' = ncalls + 1
          /\ IF Fails(r)
             THEN Raise("Interpolating", r.exc, 1..Len(results))
             ELSE /\ results' = Append(results, r)
                  /\ pc' = IF Len(results) + 1 = Len(sst_files) THEN "Aligning" ELSE pc
                  /\ computed' = 1..(Len(results) + 1)
                  /\ UNCHANGED <<failedIn, err>>
    /\ UNCHANGED <<driverVars, sst_files, ret, pool, writerVars, harnessVars>>

\* Lines 86-91: the pool is created and pool.map hands it the chunks of sst_files
PoolStart ==
    /\ pc = "Interpolating"
    /\ ~serial
    /\ pool.state = "none"
    /\ \E np \in (IF pool_size = 0 THEN 1..MaxCpu ELSE {pool_size}) :
          pool' = [state |-> "open", nproc |-> np,
                   chunksize |-> ChunkSize(Len(sst_files), np), next |-> 1,
                   running |-> {},
                   value |-> [i \in 1..Len(sst_files) |-> Pending],
                   exc |-> "none",
                   overtaken |-> FALSE]
    /\ UNCHANGED <<driverVars, pc, failedIn, err, sst_files, results, ret, ncalls,
                   computed, writerVars, harnessVars>>

\* An idle pool process takes the next chunk off the task queue
WorkerTake ==
    /\ pc = "Interpolating"
    /\ pool.state = "open"
    /\ Cardinality(pool.running) < pool.nproc
    /\ pool.next <= NumChunks(Len(sst_files), pool.chunksize)
    /\ pool' = [pool EXCEPT !.running = @ \cup {pool.next}, !.next = @ + 1]
    /\ UNCHANGED <<driverVars, pc, failedIn, err, sst_files, results, ret, ncalls,
                   computed, writerVars, harnessVars>>

\* The pool process holding chunk k finishes it: the worker has run on the chunk's
\* files in order, up to the first that raises.  MapResult._set stores the results
\* at the chunk's positions; the first exception of the map replaces the result
\* list, and chunks that complete after it are run but not stored.
WorkerFinish(k) ==
    /\ pc = "Interpolating"
    /\ pool.state = "open"
    /\ k \in pool.running
    /\ LET cs == pool.chunksize
           items == ChunkItems(k, cs, Len(sst_files))
           first == (k - 1) * cs
           res == [j \in 1..Cardinality(items) |-> WorkerOn(sst_files[first + j])]
           bad == {j \in 1..Len(res) : Fails(res[j])}
       IN IF bad # {}
          THEN LET j == CHOOSE x \in bad : \A z \in bad : x <= z
               IN /\ ncalls' = ncalls + j
                  /\ pool' = IF pool.exc = "none"
                             THEN [pool EXCEPT !.running = @ \ {k},
                                               !.exc = res[j].exc,
                                               !.value = [i \in 1..Len(sst_files) |-> Pending]]
                             ELSE [pool EXCEPT !.running = @ \ {k}]
                  /\ computed' = computed \cup {first + i : i \in 1..(j - 1)}
          ELSE /\ ncalls' = ncalls + Len(res)
               /\ pool' = IF pool.exc = "none"
                          THEN [pool EXCEPT !.running = @ \ {k},
                                            !.value = MapStore(pool.value, k, cs, res),
                                            !.overtaken = @ \/ \E j \in pool.running : j < k]
                          ELSE [pool EXCEPT !.running = @ \ {k}]
               /\ computed' = computed \cup items
    /\ UNCHANGED <<driverVars, pc, failedIn, err, sst_files, results, ret, writerVars,
                   harnessVars>>

\* Lines 91-92: every chunk has completed and none raised; pool.map returns the
\* list, pool.close()
PoolMapReturn ==
    /\ pc = "Interpolating"
    /\ pool.state = "open"
    /\ pool.next > NumChunks(Len(sst_files), pool.chunksize)
    /\ pool.running = {}
    /\ pool.exc = "none"
    /\ results' = pool.value
    /\ pool' = [pool EXCEPT !.state = "closed"]
    /\ pc' = "Aligning"
    /\ UNCHANGED <<driverVars, failedIn, err, sst_files, ret, ncalls, computed,
                   writerVars, harnessVars>>

\* Line 91: every chunk has completed and one raised; pool.map raises the first
\* exception stored, line 92 is not reached
PoolMapRaise ==
    /\ pc = "Interpolating"
    /\ pool.state = "open"
    /\ pool.next > NumChunks(Len(sst_files), pool.chunksize)
    /\ pool.running = {}
    /\ pool.exc # "none"
    /\ Raise("Interpolating", pool.exc, computed)
    /\ UNCHANGED <<driverVars, sst_files, ret, ncalls, pool, writerVars, harnessVars>>

\* Lines 95-101
Align ==
    /\ pc = "Aligning"
    /\ ret' = AlignResults(results)
    /\ pc' = "Writing"
    /\ UNCHANGED <<driverVars, failedIn, err, sst_files, results, ncalls, computed,
                   pool, writerVars, harnessVars>>

\* write_sstgrd(output_file, domain, sst, dates), lines 207-217: WriteForcing(...)
\* is constructed, then the with statement raises and the instance is dropped
WriteSstgrd ==
    /\ pc = "Writing"
    /\ LET w == WFInit(SstgrdDims, Attributes(SstgrdYear(ret.dates)))
       IN /\ file' = w.file
          /\ nc' \in Unreferenced(w.nc)
          /\ last' = [op |-> "init", dims |-> <<>>, err |-> w.err, before |-> file]
    /\ \E e \in WithErrors : err' = e
    /\ pc' = "Failed"
    /\ failedIn' = "Writing"
    /\ UNCHANGED <<driverVars, sst_files, results, ret, ncalls, computed, pool,
                   harnessVars>>

Next ==
    \/ CollectFiles
    \/ SerialStep
    \/ PoolStart
    \/ WorkerTake
    \/ \E k \in pool.running : WorkerFinish(k)
    \/ PoolMapReturn
    \/ PoolMapRaise
    \/ Align
    \/ WriteSstgrd

Spec == Init /\ [][Next]_vars

----------------------------------------------------------------------------
(* A client of WriteForcing: the constructor, then add_variable and close calls *)

DimNames == {"node", "time", "DateStrLen"}
VarNames == {"lon", "time", "sst"}
DimLists == {<<"node">>, <<"time">>, <<"time", "DateStrLen">>, <<"time", "node">>}

IdleDriver ==
    /\ year \in Years
    /\ dirs = <<>>
    /\ domain = [lon |-> <<>>, lat |-> <<>>]
    /\ unreadable = {}
    /\ serial = TRUE
    /\ pool_size = 0
    /\ failedIn = "none"
    /\ err = "none"
    /\ sst_files = <<>>
    /\ results = <<>>
    /\ ret = NotReturned
    /\ ncalls = 0
    /\ computed = {}
    /\ pool = NoPool

InitWriter ==
    /\ IdleDriver
    /\ pc = "Client"
    /\ nc = "none"
    /\ file = NoFile
    /\ last = NoCall
    /\ wIn = <<>>
    /\ wOut = <<>>

clientFrame == <<driverVars, sst_files, results, ret, ncalls, computed, pool, harnessVars>>

\* WriteForcing(filename, dimensions, global_attributes)
ClientOpen ==
    /\ pc = "Client"
    /\ nc = "none"
    /\ \E dimensions \in SUBSET DimNames, ga \in {NoAttributes, Attributes(year)} :
          LET w == WFInit(dimensions, ga)
          IN /\ file' = w.file
             /\ nc' \in (IF w.err = "none" THEN {w.nc} ELSE Unreferenced(w.nc))
             /\ err' = w.err
             /\ last' = [op |-> "init", dims |-> <<>>, err |-> w.err, before |-> file]
             /\ pc' = IF w.err = "none" THEN pc ELSE "Failed"
             /\ failedIn' = IF w.err = "none" THEN failedIn ELSE "Writing"
    /\ UNCHANGED clientFrame

\* writer.add_variable(name, data, dimensions, attributes, ncopts=ncopts)
ClientAddVariable ==
    /\ pc = "Client"
    /\ nc # "none"
    /\ \E name \in VarNames, dimensions \in DimLists, attsGiven \in BOOLEAN,
          ncoptsEmpty \in BOOLEAN :
          LET a == AddVariable(file, nc, name, dimensions, attsGiven, ncoptsEmpty)
          IN /\ file' = a.file
             /\ err' = a.err
             /\ last' = [op |-> "add_variable", dims |-> dimensions, err |-> a.err,
                         before |-> file]
    /\ UNCHANGED <<clientFrame, pc, failedIn, nc>>

\* writer.close()
ClientClose ==
    /\ pc = "Client"
    /\ nc # "none"
    /\ LET c == Close(nc)
       IN /\ nc' = c.nc
          /\ err' = c.err
          /\ last' = [op |-> "close", dims |-> <<>>, err |-> c.err, before |-> file]
    /\ UNCHANGED <<clientFrame, pc, failedIn, file>>

NextWriter == ClientOpen \/ ClientAddVariable \/ ClientClose

SpecWriter == InitWriter /\ [][NextWriter]_vars

----------------------------------------------------------------------------
(* A harness for _inter_sst_worker: one call on a mesh and a source file *)

HarnessLons == {5, 10, 15, 16, 31}
HarnessLats == {9, 15, 20, 21}

Meshes ==
    UNION {[lon : [1..n -> HarnessLons], lat : [1..n -> HarnessLats]] : n \in 1..MaxNodes}

Fields == {[j \in 1..Len(GridLat) |-> [i \in 1..Len(GridLon) |-> b + 10 * i + j]] :
               b \in {28000, 30000 - 11}}

Masks == {[j \in 1..Len(GridLat) |-> [i \in 1..Len(GridLon) |->
              IF i = m[1] /\ j = m[2] THEN 0 ELSE 1]] : m \in {<<0, 0>>, <<1, 1>>, <<2, 2>>}}

Sources ==
    [readable : BOOLEAN, sst : Fields, mask : Masks, lon : {GridLon}, lat : {GridLat},
     time : {<<0>>, <<24>>}, units : {StartOfYear(2006)}]

InitWorker ==
    /\ IdleDriver
    /\ pc = "Harness"
    /\ nc = "none"
    /\ file = NoFile
    /\ last = NoCall
    /\ wIn \in [ll : Meshes, c : Sources]
    /\ wOut = NoResult("not run")

RunWorker ==
    /\ pc = "Harness"
    /\ wOut = NoResult("not run")
    /\ wOut' = InterSstWorker(wIn.ll, wIn.c)
    /\ UNCHANGED <<driverVars, pc, failedIn, err, sst_files, results, ret, ncalls,
                   computed, pool, writerVars, wIn>>

NextWorker == RunWorker

SpecWorker == InitWorker /\ [][NextWorker]_vars

----------------------------------------------------------------------------
(* Claims *)

Returned == ret.returned

\* C1: in parallel mode, whatever the assignment of chunks to pool processes and
\* whatever the order in which they complete, results[i] is the worker's result on
\* sst_files[i] before lines 95-99 run, and row i of the returned sst and entry i of
\* the returned dates come from sst_files[i] (the date shifted by 12 hours).
C1_PoolKeepsInputOrder ==
    ~serial =>
        /\ pc \in {"Aligning", "Writing"} =>
              /\ Len(results) = Len(sst_files)
              /\ \A i \in 1..Len(sst_files) : results[i] = WorkerOn(sst_files[i])
        /\ Returned =>
              /\ Len(ret.sst) = Len(sst_files)
              /\ Len(ret.dates) = Len(sst_files)
              /\ \A i \in 1..Len(sst_files) :
                    /\ ret.sst[i] = WorkerOn(sst_files[i]).interp
                    /\ ret.dates[i] = WorkerOn(sst_files[i]).time[1] + MiddayOffset

\* A parallel run has returned although a later chunk completed before an earlier one
C1_Witness ==
    /\ ~serial
    /\ Returned
    /\ pool.overtaken

\* C2: for the same domain and the same file list, whatever the mode and the number
\* of pool processes, what a run returns is what the serial loop returns on that
\* list, and a run fails in the worker stage only if the serial loop fails.
C2_SerialParallelSame ==
    /\ Returned => SerialRun(sst_files) = [exc |-> "none", ret |-> ret]
    /\ failedIn = "Interpolating" => SerialRun(sst_files).exc # "none"

\* A parallel run on all available processes, more than one, has returned
C2_Witness ==
    /\ ~serial
    /\ pool_size = 0
    /\ Returned
    /\ Len(sst_files) > 2
    /\ pool.nproc > 1

\* C3: with all three directories present and the boundary ones not empty, the file
\* list is the last name of year-1, then every file of year, then the first name of
\* year+1; the (sst, dates) returned have one entry per file of year, plus 2.
C3_FileList ==
    LET prev == dirs[year - 1].names
        cur == dirs[year].names
        next == dirs[year + 1].names
        n == Len(sst_files)
    IN (pc # "CollectingFiles" /\ failedIn # "CollectingFiles") =>
        /\ n = Cardinality(cur) + 2
        /\ sst_files[1].y = year - 1
        /\ sst_files[1].d \in prev
        /\ \A d \in prev : d <= sst_files[1].d
        /\ sst_files[n].y = year + 1
        /\ sst_files[n].d \in next
        /\ \A d \in next : sst_files[n].d <= d
        /\ {sst_files[i] : i \in 2..(n - 1)} = FilesOf(dirs, year)
        /\ Returned => Len(ret.dates) = Cardinality(cur) + 2 /\ Len(ret.sst) = Cardinality(cur) + 2

\* A run has returned on directories with several files each
C3_Witness ==
    /\ Returned
    /\ Cardinality(dirs[year - 1].names) > 1
    /\ Cardinality(dirs[year].names) > 1
    /\ Cardinality(dirs[year + 1].names) > 1

\* C4: the dates returned are strictly increasing, whatever order os.listdir gives
\* the names of the target year in (the names sort in time order and the timestamps
\* are pairwise distinct in every input of the model).
C4_DatesIncreasing ==
    Returned => \A i \in 1..(Len(ret.dates) - 1) : ret.dates[i] < ret.dates[i + 1]

\* C5 as stated: with year-1 or year+1 missing, the run fails with a
\* ConfigurationError, no worker called and no pool created.
C5_ConfigurationError ==
    (~dirs[year - 1].exists \/ ~dirs[year + 1].exists) /\ pc # "CollectingFiles" =>
        /\ pc = "Failed"
        /\ err = "ConfigurationError"
        /\ ncalls = 0
        /\ pool.state = "none"

\* C5, amended: with year-1 or year+1 missing, the run fails in lines 71-73, no worker
\* called and no pool created, with the exception of the first failing line: the
\* FileNotFoundError of os.listdir, or the IndexError of line 71 when year-1 is
\* there but empty.
C5_FailsBeforeDispatch ==
    (~dirs[year - 1].exists \/ ~dirs[year + 1].exists) /\ pc # "CollectingFiles" =>
        /\ pc = "Failed"
        /\ failedIn = "CollectingFiles"
        /\ err = IF dirs[year - 1].exists /\ dirs[year - 1].names = {}
                 THEN "IndexError" ELSE "FileNotFoundError"
        /\ ncalls = 0
        /\ pool.state = "none"
        /\ ~Returned

\* The run has failed on a missing year+1, after listing year-1 and year
C5_Witness ==
    /\ pc = "Failed"
    /\ ~dirs[year + 1].exists
    /\ dirs[year - 1].exists
    /\ dirs[year - 1].names # {}
    /\ dirs[year].names # {}

\* C6: once write_sstgrd has opened the output file and exited, the netCDF handle
\* is closed, in every outcome.
C6_HandleReleased ==
    (file.exists /\ pc \in {"Failed", "Closed"}) => nc = "closed"


\* Wherever the worker fails on a file of the list
SomeWorkerFails == \E i \in 1..Len(sst_files) : WorkerOn(sst_files[i]).exc # "none"

\* The stages in their order, and the exits to Failed
PipelineOrder ==
    {<<"CollectingFiles", "Interpolating">>, <<"Interpolating", "Aligning">>,
     <<"Aligning", "Writing">>, <<"Writing", "Closed">>,
     <<"CollectingFiles", "Failed">>, <<"Interpolating", "Failed">>,
     <<"Aligning", "Failed">>, <<"Writing", "Failed">>}

\* C7 as stated: the stages follow each other in order, and a worker failure ends
\* the run in Failed, which carries the results computed before the failure, with
\* nothing returned and no output file.
C7_FailedCarriesPartialResults ==
    (pc = "Failed" /\ failedIn = "Interpolating") =>
        /\ Len(results) = Cardinality(computed)
        /\ ~Returned
        /\ ~file.exists

\* C7, amended: the stages follow each other in order and Failed is final; when the
\* worker fails on any file of the list the run never gets past Interpolating (no
\* results with a file missing are aligned, nothing is returned, no output file is
\* opened), and the run a worker failure ended carries no results at all: the
\* exception leaves the driver and the partial results go with its frame.
C7_WorkerFailureFailsBatch ==
    /\ [](SomeWorkerFails =>
            /\ pc \in {"Interpolating", "Failed"}
            /\ ~Returned
            /\ ~file.exists
            /\ nc = "none")
    /\ []((pc = "Failed" /\ failedIn = "Interpolating") =>
            /\ SomeWorkerFails
            /\ results = <<>>
            /\ err # "none")
    /\ [][pc' # pc => <<pc, pc'>> \in PipelineOrder]_vars

\* A worker failed after other workers' results had been computed
C7_Witness ==
    /\ pc = "Failed"
    /\ failedIn = "Interpolating"
    /\ computed # {}

\* The call add_variable(name, data, dimensions) last made named a dimension the
\* constructor had not declared
UndeclaredDimension ==
    /\ last.op = "add_variable"
    /\ \E d \in Range(last.dims) : d \notin last.before.dims

\* C8 as stated: add_variable with an undeclared dimension fails with a
\* SchemaError, and the output file has not been created or modified by then.
C8_SchemaErrorBeforeOutput ==
    UndeclaredDimension => last.err = "SchemaError" /\ ~file.exists

\* C8, amended: add_variable with an undeclared dimension fails with the ValueError
\* of createVariable, whether the writer is open or closed, and leaves the file as
\* it was before the call; the file itself exists by then, the constructor created
\* it.
C8_UndeclaredDimensionRejected ==
    UndeclaredDimension =>
        /\ last.err = "ValueError"
        /\ file = last.before
        /\ file.exists

\* Such a call was made on a closed writer whose file already held a variable
C8_Witness ==
    /\ UndeclaredDimension
    /\ nc = "closed"
    /\ last.before.vars # {}

\* C9: the year attribute write_sstgrd writes for the dates of a run on target year
\* Y is Y.
C9_YearAttribute ==
    (file.exists /\ Returned) => file.year = year

\* The cell of the source grid nearest to a mesh node, the node clamped to the grid
Clamp(axis, x) == IF x < axis[1] THEN axis[1] ELSE IF x > axis[Len(axis)] THEN axis[Len(axis)] ELSE x

\* C10: on a readable source file the worker raises nothing, returns one value per
\* mesh node, and gives a node outside the range of the grid axes the value of the
\* nearest grid cell.
C10_OutOfDomainNearest ==
    (wOut.exc # "not run" /\ wIn.c.readable) =>
        /\ wOut.exc = "none"
        /\ Len(wOut.interp) = Len(wIn.ll.lon)
        /\ \A k \in 1..Len(wIn.ll.lon) :
              wOut.interp[k] =
                  MaskedCelsius(wIn.c)[NearestIndex(wIn.c.lat, Clamp(wIn.c.lat, wIn.ll.lat[k]))]
                                      [NearestIndex(wIn.c.lon, Clamp(wIn.c.lon, wIn.ll.lon[k]))]

====
